---- MODULE Spec2Model ----
(***************************************************************************)
(* Model of enterpolation's base/list.rs: generators carrying the         *)
(* NonEmpty / Sorted markers, the equidistant generators, and the         *)
(* bound-finding operations of the SortedList trait.  Every search loop   *)
(* is executed one iteration per step.                                     *)
(*                                                                         *)
(* Numbers of the Output type (a real type R in the source) are exact     *)
(* rationals [n, d] in lowest terms with d > 0; [n |-> 0, d |-> 0] stands  *)
(* for a non-finite float (the result of a division by zero).             *)
(* usize is an unsigned integer of UsizeBits bits: a subtraction below 0  *)
(* either panics (overflow checks on) or wraps (overflow checks off).     *)
(***************************************************************************)
EXTENDS Integers, Sequences, FiniteSets, TLC

\* Longest generator that is modelled.
MaxLen == 4
\* Number of distinct knot values of a caller-supplied generator; also the
\* largest end of an equidistant range.
MaxVal == 3
\* Width of usize in the model.
UsizeBits == 16

VARIABLES col, ctor, element, op, pc, min_index, max_index, pointer, count, result

vars == <<col, ctor, element, op, pc, min_index, max_index, pointer, count, result>>
locals == <<min_index, max_index, pointer, count>>

----------------------------------------------------------------------------
(* Exact arithmetic of the Output type. *)

Abs(x) == IF x < 0 THEN -x ELSE x

RECURSIVE GCD(_, _)
GCD(a, b) == IF b = 0 THEN a ELSE GCD(b, a % b)

Rat(n, d) == LET g == GCD(Abs(n), d) IN [n |-> n \div g, d |-> d \div g]
NonFinite == [n |-> 0, d |-> 0]
Zero == Rat(0, 1)
FromUsize(i) == Rat(i, 1)

RatLe(x, y) == x.n * y.d <= y.n * x.d
RatLt(x, y) == x.n * y.d < y.n * x.d
RatAdd(x, y) == Rat(x.n * y.d + y.n * x.d, x.d * y.d)
RatSub(x, y) == Rat(x.n * y.d - y.n * x.d, x.d * y.d)
RatMul(x, y) == Rat(x.n * y.n, x.d * y.d)
RatDiv(x, y) == IF y.n = 0 \/ y.d = 0 \/ x.d = 0 THEN NonFinite
                ELSE IF y.n > 0 THEN Rat(x.n * y.d, x.d * y.n)
                ELSE Rat(-(x.n * y.d), x.d * (-y.n))
Floor(x) == x.n \div x.d
Ceil(x) == -((-x.n) \div x.d)
Trunc(x) == IF x.n >= 0 THEN Floor(x) ELSE Ceil(x)
Fract(x) == RatSub(x, FromUsize(Trunc(x)))

UsizeModulus == 2 ^ UsizeBits

\* a - b on usize: the outcomes the build can produce.
UsizeSub(a, b) ==
    IF a >= b THEN {[ok |-> TRUE, v |-> a - b]}
    ELSE {[ok |-> FALSE, v |-> 0], [ok |-> TRUE, v |-> a - b + UsizeModulus]}

----------------------------------------------------------------------------
(* Generators. *)

NoCol == [kind |-> "none", len |-> 0, data |-> <<>>, step |-> Zero, offset |-> Zero,
          nonempty |-> FALSE, sorted |-> FALSE]

Values == {2 * k : k \in 1..MaxVal}

RawLists == UNION {[1..n -> Values] : n \in 0..MaxLen}

RawGenerator(g) == [kind |-> "list", len |-> Len(g), data |-> g, step |-> Zero,
                    offset |-> Zero, nonempty |-> FALSE, sorted |-> FALSE]

\* element(i) of a caller-supplied generator is defined for 0 <= i < len and
\* panics outside; the equidistant generators compute a value for every i.
GenOk(c, i) == c.kind = "list" => i < c.len

\* element(i) of a caller-supplied generator.
List_gen(c, i) == FromUsize(c.data[i + 1])

\* self.step * R::from_usize(input).unwrap() + self.offset
Equidistant_gen(c, i) == RatAdd(RatMul(c.step, FromUsize(i)), c.offset)

\* R::from_usize(input).unwrap() / R::from_usize(self.len - 1).unwrap()
ConstEquidistant_gen(c, i) == RatDiv(FromUsize(i), FromUsize(c.len - 1))

\* The wrappers pass gen on to the generator they hold.
gen(c, i) ==
    CASE c.kind = "list" -> List_gen(c, i)
      [] c.kind = "equidistant" -> Equidistant_gen(c, i)
      [] c.kind = "const_equidistant" -> ConstEquidistant_gen(c, i)

factor(c, mi, ma, e) ==
    LET max == gen(c, ma)
        min == gen(c, mi)
    IN RatDiv(RatSub(e, min), RatSub(max, min))

\* Queries offered to a generator: below, on, between and above its knots.
Queries(c) ==
    IF c.kind = "none" THEN {}
    ELSE IF c.kind = "list" THEN {FromUsize(k) : k \in 1..(2 * MaxVal + 1)}
    ELSE {RatAdd(gen(c, 0), RatMul(Rat(j, 2), RatSub(gen(c, 1), gen(c, 0)))) :
              j \in (-1)..(2 * (c.len - 1) + 1)}

----------------------------------------------------------------------------
(* Results of a call. *)

NoResult == [kind |-> "none", a |-> 0, b |-> 0, f |-> Zero]
Panic == [kind |-> "panic", a |-> 0, b |-> 0, f |-> Zero]
Index(i) == [kind |-> "index", a |-> i, b |-> 0, f |-> Zero]
Border(a, b) == [kind |-> "border", a |-> a, b |-> b, f |-> Zero]
Triple(a, b, f) == [kind |-> "triple", a |-> a, b |-> b, f |-> f]

\* The last call of a constructor: its name, the elements of its argument and
\* what it returned.
Constructed(name, g, ret) == [name |-> name, g |-> g, ret |-> ret]
NoCtor == Constructed("none", <<>>, "none")

Init ==
    /\ col \in {NoCol} \cup {RawGenerator(g) : g \in RawLists}
    /\ ctor = NoCtor
    /\ element = Zero
    /\ op = "none"
    /\ pc = "idle"
    /\ min_index = 0
    /\ max_index = 0
    /\ pointer = 0
    /\ count = 0
    /\ result = NoResult

----------------------------------------------------------------------------
(* Constructors. *)

\* The loop of Sorted::new from index i on, with last = col.gen(i - 1).
RECURSIVE SortedFrom(_, _)
SortedFrom(g, i) ==
    IF i > Len(g) THEN TRUE
    ELSE IF ~(g[i - 1] <= g[i]) THEN FALSE
    ELSE SortedFrom(g, i + 1)

is_empty(c) == c.len = 0

\* What NonEmpty::new returns.
NonEmpty_new_ret(c) == IF is_empty(c) THEN "None" ELSE "Some"

\* Sorted::new with the test of two neighbours made strict.
Sorted_new_ret_strict(c) ==
    IF is_empty(c) THEN "Some"
    ELSE IF ~GenOk(c, 0) THEN "panic"
    ELSE IF \A i \in 1..(c.len - 1) : c.data[i] < c.data[i + 1] THEN "Some"
    ELSE "None"

\* What Sorted::new returns, or "panic" when a gen of it panics.
Sorted_new_ret(c) ==
    IF is_empty(c) THEN "Some"
    ELSE IF ~GenOk(c, 0) THEN "panic"
    ELSE IF SortedFrom(c.data, 2) THEN "Some"
    ELSE "None"

NonEmpty_new ==
    /\ pc = "idle" /\ col.kind = "list" /\ ~col.nonempty
    /\ LET ret == NonEmpty_new_ret(col) IN
        /\ col' = IF ret = "Some" THEN [col EXCEPT !.nonempty = TRUE] ELSE NoCol
        /\ ctor' = Constructed("NonEmpty::new", col.data, ret)
    /\ UNCHANGED <<element, op, pc, locals, result>>

NonEmpty_new_unchecked ==
    /\ pc = "idle" /\ col.kind = "list" /\ ~col.nonempty
    /\ col' = [col EXCEPT !.nonempty = TRUE]
    /\ ctor' = Constructed("NonEmpty::new_unchecked", col.data, "Self")
    /\ UNCHANGED <<element, op, pc, locals, result>>

Sorted_new ==
    /\ pc = "idle" /\ col.kind = "list" /\ ~col.sorted
    /\ LET ret == Sorted_new_ret(col) IN
        /\ col' = IF ret = "Some" THEN [col EXCEPT !.sorted = TRUE] ELSE NoCol
        /\ ctor' = Constructed("Sorted::new", col.data, ret)
        /\ pc' = IF ret = "panic" THEN "panicked" ELSE pc
    /\ UNCHANGED <<element, op, locals, result>>

Sorted_new_unchecked ==
    /\ pc = "idle" /\ col.kind = "list" /\ ~col.sorted
    /\ col' = [col EXCEPT !.sorted = TRUE]
    /\ ctor' = Constructed("Sorted::new_unchecked", col.data, "Self")
    /\ UNCHANGED <<element, op, pc, locals, result>>

\* Equidistant::new for start < end and len >= 2 (a positive, finite step).
Equidistant_new(start, end, len) ==
    /\ pc = "idle" /\ col.kind = "none"
    /\ col' = [kind |-> "equidistant", len |-> len, data |-> <<>>,
               step |-> RatDiv(RatSub(FromUsize(end), FromUsize(start)), FromUsize(len - 1)),
               offset |-> FromUsize(start), nonempty |-> TRUE, sorted |-> TRUE]
    /\ ctor' = Constructed("Equidistant::new", <<>>, "Self")
    /\ UNCHANGED <<element, op, pc, locals, result>>

Equidistant_normalized(len) ==
    /\ pc = "idle" /\ col.kind = "none"
    /\ col' = [kind |-> "equidistant", len |-> len, data |-> <<>>,
               step |-> RatDiv(FromUsize(1), FromUsize(len - 1)),
               offset |-> Zero, nonempty |-> TRUE, sorted |-> TRUE]
    /\ ctor' = Constructed("Equidistant::normalized", <<>>, "Self")
    /\ UNCHANGED <<element, op, pc, locals, result>>

\* NonEmpty::new(ConstEquidistant::new(len)), len >= 2.
ConstEquidistant_new(len) ==
    /\ pc = "idle" /\ col.kind = "none"
    /\ col' = [kind |-> "const_equidistant", len |-> len, data |-> <<>>,
               step |-> Zero, offset |-> Zero, nonempty |-> TRUE, sorted |-> TRUE]
    /\ ctor' = Constructed("ConstEquidistant::new", <<>>, "Self")
    /\ UNCHANGED <<element, op, pc, locals, result>>

----------------------------------------------------------------------------
(* Calls of the SortedList operations. *)

\* SortedList : NonEmptyGenerator + SortedGenerator
IsSortedList(c) == c.kind # "none" /\ c.nonempty /\ c.sorted

CanCall == pc \in {"idle", "done"} /\ IsSortedList(col)

\* A new call begins; the return value of the constructor has become the
\* generator the call is made on.
Begin(o, q) ==
    /\ op' = o
    /\ element' = q
    /\ ctor' = NoCtor
    /\ UNCHANGED col

Finish(r) ==
    /\ result' = r
    /\ pc' = IF r.kind = "panic" THEN "panicked" ELSE "done"

NoLocals ==
    /\ min_index' = 0
    /\ max_index' = 0
    /\ pointer' = 0
    /\ count' = 0

Unwind == Finish(Panic) /\ NoLocals

\* A search that stops one index too early.
border_continue_early(mi, ma) == ma - mi > 2

\* while max_index - min_index > 1
border_continue(mi, ma) == ma - mi > 1

\* let index = min_index + (max_index - min_index) / 2
border_index(mi, ma) == mi + (ma - mi) \div 2

\* The comparison of lower_border put into upper_border.
upper_border_cond_le(e, sample) == RatLe(e, sample)

\* if element < sample (upper_border)
upper_border_cond(e, sample) == RatLt(e, sample)

\* The comparison of upper_border put into lower_border.
lower_border_cond_ge(e, sample) == RatLe(sample, e)

\* if element > sample (lower_border)
lower_border_cond(e, sample) == RatLt(sample, e)

\* The early return of lower_bound with the comparison turned round.
lower_bound_cond_ge(lastv, e) == RatLe(e, lastv)

\* if NonEmptyGenerator::last(self) <= element
lower_bound_cond(lastv, e) == RatLe(lastv, e)

\* if NonEmptyGenerator::first(self) >= element
upper_bound_cond(firstv, e) == RatLe(e, firstv)

\* lower_bound taking the other index of the border.
lower_bound_pick_max(b) == b[2]

\* self.upper_border(element)[0]
lower_bound_pick(b) == b[1]

\* upper_bound taking the other index of the border.
upper_bound_pick_min(b) == b[1]

\* self.lower_border(element)[1]
upper_bound_pick(b) == b[2]

\* let mut min_index = 0; let mut max_index = self.len() - 1;
border_enter(loop) ==
    \E m \in UsizeSub(col.len, 1) :
        IF ~m.ok THEN Unwind
        ELSE /\ min_index' = 0
             /\ max_index' = m.v
             /\ pc' = loop
             /\ result' = NoResult
             /\ pointer' = 0
             /\ count' = 0

lower_bound(q) ==
    /\ CanCall
    /\ Begin("lower_bound", q)
    /\ \E l \in UsizeSub(col.len, 1) :
        IF ~l.ok \/ ~GenOk(col, l.v) THEN Unwind
        ELSE IF lower_bound_cond(gen(col, l.v), q)
             THEN Finish(Index(l.v)) /\ NoLocals
             ELSE border_enter("upper_border")

upper_bound(q) ==
    /\ CanCall
    /\ Begin("upper_bound", q)
    /\ IF ~GenOk(col, 0) THEN Unwind
       ELSE IF upper_bound_cond(gen(col, 0), q)
            THEN Finish(Index(0)) /\ NoLocals
            ELSE border_enter("lower_border")

upper_border(q) ==
    /\ CanCall
    /\ Begin("upper_border", q)
    /\ border_enter("upper_border")

lower_border(q) ==
    /\ CanCall
    /\ Begin("lower_border", q)
    /\ border_enter("lower_border")

\* The default body of the trait; Equidistant and NonEmpty<ConstEquidistant>
\* override it.
upper_border_with_factor(q) ==
    /\ CanCall /\ col.kind = "list"
    /\ Begin("upper_border_with_factor", q)
    /\ border_enter("upper_border")

upper_border_loop ==
    /\ pc = "upper_border"
    /\ border_continue(min_index, max_index)
    /\ LET index == border_index(min_index, max_index) IN
        IF ~GenOk(col, index) THEN Unwind
        ELSE /\ IF upper_border_cond(element, gen(col, index))
                THEN max_index' = index /\ min_index' = min_index
                ELSE min_index' = index /\ max_index' = max_index
             /\ UNCHANGED <<pc, result, pointer, count>>
    /\ UNCHANGED <<col, ctor, element, op>>

upper_border_return ==
    /\ pc = "upper_border"
    /\ ~border_continue(min_index, max_index)
    /\ CASE op = "lower_bound" ->
              Finish(Index(lower_bound_pick(<<min_index, max_index>>)))
         [] op = "upper_border" ->
              Finish(Border(min_index, max_index))
         [] op = "upper_border_with_factor" ->
              IF ~GenOk(col, max_index) \/ ~GenOk(col, min_index) THEN Finish(Panic)
              ELSE Finish(Triple(min_index, max_index,
                                 factor(col, min_index, max_index, element)))
    /\ UNCHANGED <<col, ctor, element, op, locals>>

lower_border_loop ==
    /\ pc = "lower_border"
    /\ border_continue(min_index, max_index)
    /\ LET index == border_index(min_index, max_index) IN
        IF ~GenOk(col, index) THEN Unwind
        ELSE /\ IF lower_border_cond(element, gen(col, index))
                THEN min_index' = index /\ max_index' = max_index
                ELSE max_index' = index /\ min_index' = min_index
             /\ UNCHANGED <<pc, result, pointer, count>>
    /\ UNCHANGED <<col, ctor, element, op>>

lower_border_return ==
    /\ pc = "lower_border"
    /\ ~border_continue(min_index, max_index)
    /\ CASE op = "upper_bound" ->
              Finish(Index(upper_bound_pick(<<min_index, max_index>>)))
         [] op = "lower_border" ->
              Finish(Border(min_index, max_index))
    /\ UNCHANGED <<col, ctor, element, op, locals>>

\* if element >= self.gen(sample) (strict_upper_bound, strict_lower_bound)
strict_cond(e, sample) == RatLe(sample, e)

\* A taken branch that forgets the sampled element itself.
strict_count_taken_short(c, step) == c - step

\* count -= step + 1
strict_count_taken(c, step) == c - (step + 1)

strict_upper_bound(q) ==
    /\ CanCall
    /\ Begin("strict_upper_bound", q)
    /\ pointer' = 0
    /\ count' = col.len
    /\ pc' = "strict_upper_bound"
    /\ result' = NoResult
    /\ min_index' = 0
    /\ max_index' = 0

strict_upper_bound_loop ==
    /\ pc = "strict_upper_bound"
    /\ count > 0
    /\ LET step == count \div 2
           sample == pointer + step
       IN IF ~GenOk(col, sample) THEN Unwind
          ELSE IF strict_cond(element, gen(col, sample))
               THEN /\ pointer' = sample + 1
                    /\ count' = strict_count_taken(count, step)
                    /\ UNCHANGED <<pc, result, min_index, max_index>>
               ELSE /\ count' = step
                    /\ UNCHANGED <<pc, result, pointer, min_index, max_index>>
    /\ UNCHANGED <<col, ctor, element, op>>

strict_upper_bound_return ==
    /\ pc = "strict_upper_bound"
    /\ ~(count > 0)
    /\ Finish(Index(pointer))
    /\ UNCHANGED <<col, ctor, element, op, locals>>

strict_lower_bound(q) ==
    /\ CanCall
    /\ Begin("strict_lower_bound", q)
    /\ \E p \in UsizeSub(col.len, 1) :
        IF ~p.ok THEN Unwind
        ELSE /\ pointer' = p.v
             /\ count' = col.len
             /\ pc' = "strict_lower_bound"
             /\ result' = NoResult
             /\ min_index' = 0
             /\ max_index' = 0

strict_lower_bound_loop ==
    /\ pc = "strict_lower_bound"
    /\ count > 0
    /\ LET step == count \div 2 IN
        \E sample \in UsizeSub(pointer, step) :
            IF ~sample.ok \/ ~GenOk(col, sample.v) THEN Unwind
            ELSE IF strict_cond(element, gen(col, sample.v))
                 THEN \E p \in UsizeSub(sample.v, 1) :
                        IF ~p.ok THEN Unwind
                        ELSE /\ pointer' = p.v
                             /\ count' = strict_count_taken(count, step)
                             /\ UNCHANGED <<pc, result, min_index, max_index>>
                 ELSE /\ count' = step
                      /\ UNCHANGED <<pc, result, pointer, min_index, max_index>>
    /\ UNCHANGED <<col, ctor, element, op>>

strict_lower_bound_return ==
    /\ pc = "strict_lower_bound"
    /\ ~(count > 0)
    /\ Finish(Index(pointer))
    /\ UNCHANGED <<col, ctor, element, op, locals>>

\* The body shared by the two overrides: floor and ceil of scaled become the
\* indices (to_usize().unwrap() panics on a negative value), fract the factor.
scaled_border(scaled, len) ==
    IF Floor(scaled) < 0 \/ Ceil(scaled) < 0 THEN Panic
    ELSE LET mi == IF Floor(scaled) >= 0 THEN Floor(scaled) ELSE 0
             ma == IF Ceil(scaled) <= len - 1 THEN Ceil(scaled) ELSE len - 1
         IN Triple(mi, ma, Fract(scaled))

Equidistant_upper_border_with_factor(q) ==
    /\ CanCall /\ col.kind = "equidistant"
    /\ Begin("upper_border_with_factor", q)
    /\ Finish(scaled_border(RatDiv(q, col.step), col.len))
    /\ NoLocals

ConstEquidistant_upper_border_with_factor(q) ==
    /\ CanCall /\ col.kind = "const_equidistant"
    /\ Begin("upper_border_with_factor", q)
    /\ Finish(scaled_border(RatMul(q, FromUsize(col.len - 1)), col.len))
    /\ NoLocals

----------------------------------------------------------------------------

Next ==
    \/ NonEmpty_new
    \/ NonEmpty_new_unchecked
    \/ Sorted_new
    \/ Sorted_new_unchecked
    \/ \E len \in 2..MaxLen : Equidistant_normalized(len)
    \/ \E len \in 2..MaxLen : \E start \in (-1)..(MaxVal - 1) : \E end \in (start + 1)..MaxVal :
          Equidistant_new(start, end, len)
    \/ \E len \in 2..MaxLen : ConstEquidistant_new(len)
    \/ \E q \in Queries(col) : lower_bound(q)
    \/ \E q \in Queries(col) : upper_bound(q)
    \/ \E q \in Queries(col) : upper_border(q)
    \/ \E q \in Queries(col) : lower_border(q)
    \/ \E q \in Queries(col) : upper_border_with_factor(q)
    \/ \E q \in Queries(col) : strict_upper_bound(q)
    \/ \E q \in Queries(col) : strict_lower_bound(q)
    \/ \E q \in Queries(col) : Equidistant_upper_border_with_factor(q)
    \/ \E q \in Queries(col) : ConstEquidistant_upper_border_with_factor(q)
    \/ upper_border_loop
    \/ upper_border_return
    \/ lower_border_loop
    \/ lower_border_return
    \/ strict_upper_bound_loop
    \/ strict_upper_bound_return
    \/ strict_lower_bound_loop
    \/ strict_lower_bound_return

Spec == Init /\ [][Next]_vars

\* A call that has begun runs on: its next iteration or its return is taken.
Run ==
    \/ upper_border_loop
    \/ upper_border_return
    \/ lower_border_loop
    \/ lower_border_return
    \/ strict_upper_bound_loop
    \/ strict_upper_bound_return
    \/ strict_lower_bound_loop
    \/ strict_lower_bound_return

FairSpec == Spec /\ WF_vars(Run)

----------------------------------------------------------------------------
(* The operations as functions of the generator and the query, for sorted  *)
(* generators of at least one element (no index leaves 0..len-1 there).    *)

\* The loop of upper_border from [mi, ma] on.
RECURSIVE upper_border_run(_, _, _, _)
upper_border_run(c, e, mi, ma) ==
    IF border_continue(mi, ma)
    THEN LET index == border_index(mi, ma) IN
         IF upper_border_cond(e, gen(c, index))
         THEN upper_border_run(c, e, mi, index)
         ELSE upper_border_run(c, e, index, ma)
    ELSE <<mi, ma>>

\* The loop of lower_border from [mi, ma] on.
RECURSIVE lower_border_run(_, _, _, _)
lower_border_run(c, e, mi, ma) ==
    IF border_continue(mi, ma)
    THEN LET index == border_index(mi, ma) IN
         IF lower_border_cond(e, gen(c, index))
         THEN lower_border_run(c, e, index, ma)
         ELSE lower_border_run(c, e, mi, index)
    ELSE <<mi, ma>>

lower_bound_of(c, e) ==
    IF lower_bound_cond(gen(c, c.len - 1), e) THEN c.len - 1
    ELSE lower_bound_pick(upper_border_run(c, e, 0, c.len - 1))

upper_bound_of(c, e) ==
    IF upper_bound_cond(gen(c, 0), e) THEN 0
    ELSE upper_bound_pick(lower_border_run(c, e, 0, c.len - 1))

upper_border_with_factor_of(c, e) ==
    LET b == upper_border_run(c, e, 0, c.len - 1)
    IN Triple(b[1], b[2], factor(c, b[1], b[2], e))

----------------------------------------------------------------------------
(* Vocabulary of the properties. *)

Indices(c) == 0..(c.len - 1)

\* The generator really is sorted and non-empty.
SortedNonEmpty(c) ==
    /\ IsSortedList(c)
    /\ c.len >= 1
    /\ \A i \in Indices(c) : i + 1 \in Indices(c) => RatLe(gen(c, i), gen(c, i + 1))

\* The call of o has ended, by a return or by a panic.
Ended(o) == op = o /\ pc \in {"done", "panicked"}

Returned(o) == op = o /\ pc = "done"

SetMax(S) == CHOOSE x \in S : \A y \in S : y <= x
SetMin(S) == CHOOSE x \in S : \A y \in S : x <= y

IndicesLe(c, q) == {i \in Indices(c) : RatLe(gen(c, i), q)}
IndicesGe(c, q) == {i \in Indices(c) : RatLe(q, gen(c, i))}
IndicesEq(c, q) == {i \in Indices(c) : gen(c, i) = q}

InRange(c, q) == RatLe(gen(c, 0), q) /\ RatLe(q, gen(c, c.len - 1))

----------------------------------------------------------------------------
(* Properties. *)

\* C1: on a sorted, non-empty generator of n elements lower_bound(q) returns
\* the largest index i with S[i] <= q: n-1 when q >= S[n-1], the last index of
\* a run of elements equal to q, and 0 when q is smaller than every element.
C1_LowerBound ==
    (Ended("lower_bound") /\ SortedNonEmpty(col)) =>
        /\ result.kind = "index"
        /\ result.a = IF IndicesLe(col, element) = {} THEN 0
                      ELSE SetMax(IndicesLe(col, element))
        /\ RatLe(gen(col, col.len - 1), element) => result.a = col.len - 1
        /\ IndicesEq(col, element) # {} => result.a = SetMax(IndicesEq(col, element))

\* lower_bound has searched and returned the last index of a run of duplicates
\* of q that ends before the last element.
C1_Witness ==
    /\ Returned("lower_bound") /\ SortedNonEmpty(col)
    /\ Cardinality(IndicesEq(col, element)) >= 2
    /\ result.a = SetMax(IndicesEq(col, element))
    /\ result.a < col.len - 1
    /\ result.a = min_index

C3_Borders ==
    ((Ended("lower_border") \/ Ended("upper_border")) /\ SortedNonEmpty(col) /\ col.len >= 2) =>
        /\ result.kind = "border"
        /\ result.b = result.a + 1
        /\ 0 <= result.a /\ result.b <= col.len - 1
        /\ IndicesLe(col, element) = {} => result.a = 0 /\ result.b = 1
        /\ IndicesGe(col, element) = {} =>
               result.a = col.len - 2 /\ result.b = col.len - 1

\* Both borders are reached on the longest generators: upper_border below every
\* element, lower_border above every element.
C3_Witness ==
    /\ SortedNonEmpty(col) /\ col.len = MaxLen
    /\ \/ Returned("upper_border") /\ IndicesLe(col, element) = {}
          /\ result = Border(0, 1)
       \/ Returned("lower_border") /\ IndicesGe(col, element) = {}
          /\ result = Border(col.len - 2, col.len - 1)

\* C4 as stated: on a sorted, non-empty generator and for S[0] <= q <= S[n-1],
\* lower_bound(q) <= upper_bound(q).
C4_Original ==
    (Returned("upper_bound") /\ SortedNonEmpty(col) /\ InRange(col, element)) =>
        lower_bound_of(col, element) <= result.a

\* C4 (amended): on a sorted, non-empty generator and for S[0] <= q <= S[n-1],
\* lower_bound(q) <= upper_bound(q) provided q equals at most one element of S;
\* when q equals two or more elements, lower_bound(q) is the last and
\* upper_bound(q) the first index of that run, so lower_bound(q) > upper_bound(q).
C4_BoundsOrdered ==
    (Returned("upper_bound") /\ SortedNonEmpty(col) /\ InRange(col, element)) =>
        IF Cardinality(IndicesEq(col, element)) <= 1
        THEN lower_bound_of(col, element) <= result.a
        ELSE lower_bound_of(col, element) > result.a

\* upper_bound has returned for a query strictly between two neighbouring
\* elements, and lower_bound is the index just before it.
C4_Witness ==
    /\ Returned("upper_bound") /\ SortedNonEmpty(col) /\ InRange(col, element)
    /\ IndicesEq(col, element) = {}
    /\ result.a = max_index
    /\ lower_bound_of(col, element) + 1 = result.a

\* C5 as stated: on a sorted, non-empty generator, S[lower_bound(q)] # q
\* implies lower_bound(q) = upper_bound(q).
C5_Original ==
    (Returned("upper_bound") /\ SortedNonEmpty(col)
        /\ gen(col, lower_bound_of(col, element)) # element) =>
        lower_bound_of(col, element) = result.a

\* C5 (amended): on a sorted, non-empty generator, when S[lower_bound(q)] # q,
\* lower_bound(q) = upper_bound(q) if q is below or above the full range, and
\* upper_bound(q) = lower_bound(q) + 1 if S[0] < q < S[n-1].
C5_BoundsApart ==
    (Returned("upper_bound") /\ SortedNonEmpty(col)
        /\ gen(col, lower_bound_of(col, element)) # element) =>
        IF InRange(col, element)
        THEN result.a = lower_bound_of(col, element) + 1
        ELSE result.a = lower_bound_of(col, element)

\* upper_bound has returned n-1 for a query above every element of a generator
\* of at least three elements, where lower_bound is n-1 as well.
C5_Witness ==
    /\ Returned("upper_bound") /\ SortedNonEmpty(col) /\ col.len >= 3
    /\ IndicesGe(col, element) = {}
    /\ gen(col, lower_bound_of(col, element)) # element
    /\ result.a = col.len - 1
    /\ lower_bound_of(col, element) = result.a

\* C6: for an equidistant generator and a query inside its range, a knot
\* included, the override of upper_border_with_factor returns the triple of
\* the generic implementation (upper_border, then factor) on the same elements.
C6_OverrideIsGeneric ==
    (Ended("upper_border_with_factor") /\ col.kind \in {"equidistant", "const_equidistant"}
        /\ InRange(col, element)) =>
        result = upper_border_with_factor_of(col, element)

\* C7: a bound-finding call on an empty generator never returns a value.
C7_EmptyPanics ==
    (IsSortedList(col) /\ col.len = 0 /\ op # "none") => pc # "done"

\* C8: on a sorted, non-empty generator, q1 <= q2 implies
\* lower_bound(q1) <= lower_bound(q2) and upper_bound(q1) <= upper_bound(q2).
C8_Monotone ==
    /\ (Ended("lower_bound") /\ SortedNonEmpty(col)) =>
           /\ pc = "done"
           /\ \A q1 \in Queries(col) :
                  RatLe(q1, element) => lower_bound_of(col, q1) <= result.a
    /\ (Ended("upper_bound") /\ SortedNonEmpty(col)) =>
           /\ pc = "done"
           /\ \A q1 \in Queries(col) :
                  RatLe(q1, element) => upper_bound_of(col, q1) <= result.a

\* lower_bound has returned an index that is strictly bigger than the one of
\* a smaller query and strictly smaller than the last index.
C8_Witness ==
    /\ Returned("lower_bound") /\ SortedNonEmpty(col)
    /\ result.a < col.len - 1
    /\ \E q1 \in Queries(col) :
           RatLt(q1, element) /\ lower_bound_of(col, q1) < result.a

\* C9: on a sorted, non-empty generator of n elements strict_lower_bound(q)
\* returns the largest index whose element is <= q, and n-1 when every element
\* is bigger than q.
C9_StrictLowerBound ==
    (Ended("strict_lower_bound") /\ SortedNonEmpty(col)) =>
        result = Index(IF IndicesLe(col, element) = {} THEN col.len - 1
                       ELSE SetMax(IndicesLe(col, element)))

\* C10: on a sorted generator of n >= 2 elements strict_upper_bound(q) returns
\* 0 when every element is bigger than q and upper_border(q)[1] otherwise.
C10_StrictUpperBound ==
    (Ended("strict_upper_bound") /\ SortedNonEmpty(col) /\ col.len >= 2) =>
        result = Index(IF IndicesLe(col, element) = {} THEN 0
                       ELSE upper_border_run(col, element, 0, col.len - 1)[2])

\* C11: the checked constructors never panic; Sorted::new(g) returns Some
\* exactly when g[i] <= g[i+1] for every pair of neighbours (so for an empty
\* and for a one-element g) and None otherwise; NonEmpty::new(g) returns None
\* exactly when g has length 0; a wrapper that is returned has the length of g
\* and the element of g at every index.
C11_CheckedConstructors ==
    /\ ctor.name = "Sorted::new" =>
           /\ ctor.ret \in {"Some", "None"}
           /\ ctor.ret = "Some" <=>
                  \A i \in 1..(Len(ctor.g) - 1) : ctor.g[i] <= ctor.g[i + 1]
    /\ ctor.name = "NonEmpty::new" =>
           /\ ctor.ret \in {"Some", "None"}
           /\ ctor.ret = "None" <=> Len(ctor.g) = 0
    /\ (ctor.name \in {"Sorted::new", "NonEmpty::new"} /\ ctor.ret = "Some") =>
           /\ col.len = Len(ctor.g)
           /\ \A i \in Indices(col) :
                  GenOk(col, i) /\ gen(col, i) = FromUsize(ctor.g[i + 1])

\* Sorted::new has returned Some for a generator of at least three elements
\* two of which are equal.
C11_Witness ==
    /\ ctor.name = "Sorted::new" /\ ctor.ret = "Some"
    /\ Len(ctor.g) >= 3
    /\ \E i \in 1..(Len(ctor.g) - 1) : ctor.g[i] = ctor.g[i + 1]
    /\ col.sorted /\ col.data = ctor.g

\* q equals an element of S that is neither the first nor the last.
InteriorMatch(c, q) == \E i \in Indices(c) : 0 < i /\ i < c.len - 1 /\ gen(c, i) = q

\* C12 as stated: on a sorted generator of n >= 2 elements and for q equal to
\* one or more interior elements, lower_border(q)[0] >= upper_border(q)[0].
C12_Original ==
    (Returned("lower_border") /\ SortedNonEmpty(col) /\ col.len >= 2
        /\ InteriorMatch(col, element)) =>
        result.a >= upper_border_run(col, element, 0, col.len - 1)[1]

\* C12 (amended): on a sorted generator of n >= 2 elements and for q equal to
\* one or more interior elements, lower_border(q) prefers the earlier side of
\* the run and upper_border(q) the later side:
\* lower_border(q)[0] < upper_border(q)[0].
C12_BorderSides ==
    (Returned("lower_border") /\ SortedNonEmpty(col) /\ col.len >= 2
        /\ InteriorMatch(col, element)) =>
        result.a < upper_border_run(col, element, 0, col.len - 1)[1]

\* lower_border has returned for a query equal to two interior elements; its
\* max index is the first of them and the min index of upper_border the last.
C12_Witness ==
    /\ Returned("lower_border") /\ SortedNonEmpty(col) /\ col.len >= 4
    /\ IndicesEq(col, element) = {1, 2}
    /\ result = Border(0, 1)
    /\ upper_border_run(col, element, 0, col.len - 1) = <<2, 3>>

\* A search loop is running.
Searching ==
    pc \in {"upper_border", "lower_border", "strict_upper_bound", "strict_lower_bound"}

\* One more iteration of the running loop has been made.
Iterated == Searching /\ pc' = pc

\* C13: on every non-empty generator, sorted or not, and for every query, each
\* iteration of the loops of upper_border and lower_border strictly decreases
\* max_index - min_index, each iteration of the loops of strict_upper_bound and
\* strict_lower_bound strictly decreases count, and the operation finishes.
C13_Terminates ==
    /\ [][(col.len >= 1 /\ Iterated) =>
            /\ pc \in {"upper_border", "lower_border"} =>
                   max_index' - min_index' < max_index - min_index
            /\ pc \in {"strict_upper_bound", "strict_lower_bound"} =>
                   count' < count /\ count' >= 0]_vars
    /\ (col.len >= 1 /\ Searching) ~> ~Searching

\* The second iteration of the loop of upper_border on a generator that is not
\* sorted has moved min_index.
C13_Witness ==
    /\ pc = "upper_border" /\ col.kind = "list" /\ col.len = MaxLen
    /\ ~SortedFrom(col.data, 2)
    /\ min_index > 1
    /\ max_index - min_index = 1

\* The bound-finding operations with a generic implementation only.
GenericOps ==
    {"lower_bound", "upper_bound", "strict_lower_bound", "strict_upper_bound",
     "lower_border", "upper_border"}

\* C14: on a sorted, non-empty generator of n elements and for every query, no
\* generic bound-finding operation computes an index below 0 or reads an
\* element outside 0..n-1 at any step: no subtraction underflows (it would
\* panic or leave a wrapped index) and no gen panics.
C14_IndicesInRange ==
    (SortedNonEmpty(col) /\ op \in GenericOps) =>
        /\ pc # "panicked"
        /\ min_index <= col.len - 1
        /\ max_index <= col.len - 1
        /\ pointer <= col.len
        /\ result.kind = "index" => result.a <= col.len

====
